---- MODULE Spec2Model ----
(***************************************************************************)
(* Model of src/src/sound_data.rs: SoundData::new (the construction        *)
(* pipeline), the Drop of SoundData, and the shared holders of the doc     *)
(* example (Rc clones held by Sounds).  The collaborators (sndfile, the    *)
(* OpenAL wrapper, audio_tags) appear as the outcomes they can hand back.  *)
(***************************************************************************)
EXTENDS Integers, Sequences, FiniteSets, TLC

\* ---- bounds ----
MaxEntities == 2        \* SoundData values constructed over a run
MaxClones   == 1        \* Rc clones ever made of one SoundData
MaxHandles  == 2        \* buffer names the backend can hand out

\* ---- program constants ----
NoBuffer == 0           \* let mut buffer_id = 0

Handles  == 1..MaxHandles
Entities == 1..MaxEntities

\* ---- inputs: what the collaborators can report about the file ----
Channels    == {1, 2, 3}
FrameCounts == {2, 1073741824}
SampleRates == {44100}
TagSets     == { {}, {<<"title", "Shot">>} }

NoTags == {}
NoInfo == [channels |-> 0, frames |-> 0, samplerate |-> 0]
Infos  == [channels : Channels, frames : FrameCounts, samplerate : SampleRates]

NoUpload == [buffer |-> NoBuffer, format |-> "none", size |-> 0, rate |-> 0]
NoData   == [sound_tags |-> NoTags, snd_info |-> NoInfo,
             nb_sample |-> <<0, 0>>, al_buffer |-> NoBuffer]
NoOrigin == [upload |-> NoUpload, queried |-> "pending", data |-> NoData]
NoRet    == [of |-> 0, call |-> "none"]
NoFailure == [value |-> "pending", cause |-> "none"]

VARIABLES
  pc,          \* position inside SoundData::new ("idle" = not in a call)
  ctx,         \* what check_openal_context! found
  openRes,     \* what SndFile::new answered: "pending", "Ok" or "Err"
  fileOpen,    \* the SndFile handle opened by this call is open
  infos,       \* let infos
  nb_sample,   \* let nb_sample
  samplesLen,  \* samples.len()
  readGot,     \* what read_i16 returned (the code drops it)
  buffer_id,   \* let mut buffer_id
  format,      \* let format
  sound_data,  \* let sound_data
  result,      \* "pending", "None" or "Some"
  cause,       \* which gate returned None
  calls,       \* collaborator calls of this construction, in order
  genHandle,   \* the name alGenBuffers wrote in this call, NoBuffer if none
  upload,      \* the arguments of alBufferData in this call
  queried,     \* what openal_has_error answered: "pending", "none", "error"
  allocBefore, \* number of device buffers when the call started
  alError,     \* the backend's error flag
  allocated,   \* device buffers that exist in the backend
  ents,        \* the SoundData values constructed so far
  origin,      \* per entity: the gen / upload / query of its construction
  holders,     \* per entity: live Rc references
  clones,      \* per entity: Rc clones made so far
  genOf,       \* per entity: the name alGenBuffers gave its construction
  deleted,     \* per entity: the names its drop passed to alDeleteBuffers
  nextEntity,  \* next free entity slot
  ret,         \* what the accessor call in progress hands back
  lastFailure, \* history: value and gate of the latest failed construct
  stale        \* history: entities whose buffer was released from outside

locals  == <<ctx, openRes, fileOpen, infos, nb_sample, samplesLen, readGot,
             buffer_id, format, sound_data, result, cause, calls,
             genHandle, upload, queried, allocBefore>>
backend == <<alError, allocated>>
heap    == <<ents, origin, genOf, holders, clones, deleted, nextEntity>>
observed == <<ret, lastFailure, stale>>
vars    == <<pc, locals, backend, heap, observed>>

\* ---- pure helpers ----

\* Sample counts are i64 / uint (64 bits on the modelled target) in the code
\* and pass 2^31, which TLC's own integers cannot hold: a count is kept as
\* two limbs <<hi, lo>> standing for hi * 2^16 + lo, with 0 <= lo < 2^16.
Wide(n) == <<n \div 65536, n % 65536>>

\* c * w for a small factor c (no 64-bit overflow at the counts modelled)
WMul(c, w) ==
  LET lo == c * w[2] IN <<c * w[1] + (lo \div 65536), lo % 65536>>

\* w - 1, for w > 0
WPred(w) == IF w[2] > 0 THEN <<w[1], w[2] - 1>> ELSE <<w[1] - 1, 65535>>

\* (size_of::<i16>() * n) as i32: 2n keeps its low 32 bits, read as signed
Len32(n) ==
  LET d == WMul(2, n)
      h == d[1] % 65536
  IN  IF h < 32768 THEN h * 65536 + d[2]
                   ELSE (h - 65536) * 65536 + d[2]

\* al::get_channels_format: mono and stereo map to a 16-bit format
get_channels_format(ch) ==
  IF ch = 1 THEN "MONO16" ELSE IF ch = 2 THEN "STEREO16" ELSE "none"

\* what SndFile::read_i16 can return when asked for n items
ReadOutcomes(n) ==
  {n} \cup {<<0, 0>>} \cup (IF n # <<0, 0>> THEN {WPred(n)} ELSE {})

Init ==
  /\ pc = "idle"
  /\ ctx = FALSE /\ openRes = "pending" /\ fileOpen = FALSE
  /\ infos = NoInfo /\ nb_sample = <<0, 0>> /\ samplesLen = <<0, 0>>
  /\ readGot = <<0, 0>>
  /\ buffer_id = NoBuffer /\ format = "none"
  /\ sound_data = NoData /\ result = "pending" /\ cause = "none"
  /\ calls = <<>> /\ genHandle = NoBuffer /\ upload = NoUpload
  /\ queried = "pending" /\ allocBefore = 0
  /\ alError = FALSE /\ allocated = {}
  /\ ents = [e \in Entities |-> NoData]
  /\ origin = [e \in Entities |-> NoOrigin]
  /\ holders = [e \in Entities |-> 0]
  /\ clones = [e \in Entities |-> 0]
  /\ genOf = [e \in Entities |-> NoBuffer]
  /\ deleted = [e \in Entities |-> <<>>]
  /\ nextEntity = 1
  /\ ret = NoRet
  /\ lastFailure = NoFailure
  /\ stale = {}

\* ---- SoundData::new, step by step ----

\* the caller invokes SoundData::new(path)
Begin ==
  /\ pc = "idle"
  /\ ret.call = "none"
  /\ nextEntity <= MaxEntities
  /\ pc' = "context"
  /\ allocBefore' = Cardinality(allocated)
  /\ UNCHANGED ret
  /\ UNCHANGED <<ctx, openRes, fileOpen, infos, nb_sample, samplesLen, readGot,
                 buffer_id, format, sound_data, result, cause, calls,
                 genHandle, upload, queried>>
  /\ UNCHANGED <<backend, heap, lastFailure, stale>>

\* early `return None`
Fail(why) ==
  /\ pc' = "done"
  /\ result' = "None"
  /\ cause' = why

\* CheckContext with the check made too late: the open is attempted first
CheckContext_OpensFirst(c) ==
  /\ pc = "context"
  /\ ctx' = c
  /\ calls' = Append(calls, "hasActiveContext")
  /\ pc' = "open"
  /\ UNCHANGED <<result, cause>>
  /\ UNCHANGED <<openRes, fileOpen, infos, nb_sample, samplesLen, readGot,
                 buffer_id, format, sound_data, genHandle, upload,
                 queried, allocBefore>>
  /\ UNCHANGED <<backend, heap, observed>>

\* check_openal_context!(None), which finds a context (c) or not
CheckContext(c) ==
  /\ pc = "context"
  /\ ctx' = c
  /\ calls' = Append(calls, "hasActiveContext")
  /\ IF c THEN pc' = "open" /\ UNCHANGED <<result, cause>>
          ELSE Fail("NoActiveContext")
  /\ UNCHANGED <<openRes, fileOpen, infos, nb_sample, samplesLen, readGot,
                 buffer_id, format, sound_data, genHandle, upload,
                 queried, allocBefore>>
  /\ UNCHANGED <<backend, heap, observed>>

\* OpenFile with the Err arm printing the error and falling through
OpenFile_NoReturn(ok) ==
  /\ pc = "open"
  /\ calls' = Append(calls, "open")
  /\ openRes' = IF ok THEN "Ok" ELSE "Err"
  /\ fileOpen' = ok
  /\ pc' = "info"
  /\ UNCHANGED <<result, cause>>
  /\ UNCHANGED <<ctx, infos, nb_sample, samplesLen, readGot,
                 buffer_id, format, sound_data, genHandle, upload,
                 queried, allocBefore>>
  /\ UNCHANGED <<backend, heap, observed>>

\* match SndFile::new(path, Read), which answers Ok (ok) or Err
OpenFile(ok) ==
  /\ pc = "open"
  /\ calls' = Append(calls, "open")
  /\ openRes' = IF ok THEN "Ok" ELSE "Err"
  /\ IF ok
       THEN fileOpen' = TRUE /\ pc' = "info" /\ UNCHANGED <<result, cause>>
       ELSE UNCHANGED fileOpen /\ Fail("FileOpenError")
  /\ UNCHANGED <<ctx, infos, nb_sample, samplesLen, readGot,
                 buffer_id, format, sound_data, genHandle, upload,
                 queried, allocBefore>>
  /\ UNCHANGED <<backend, heap, observed>>

\* GetInfo with the channel count left out of the product
GetInfo_FramesOnly(i) ==
  /\ pc = "info"
  /\ calls' = Append(calls, "getInfo")
  /\ infos' = i
  /\ nb_sample' = Wide(i.frames)
  /\ pc' = "read"
  /\ UNCHANGED <<ctx, openRes, fileOpen, samplesLen, readGot, buffer_id,
                 format, sound_data, result, cause, genHandle, upload,
                 queried, allocBefore>>
  /\ UNCHANGED <<backend, heap, observed>>

\* let infos = file.get_sndinfo(), which answers i;
\* let nb_sample = infos.channels as i64 * infos.frames
GetInfo(i) ==
  /\ pc = "info"
  /\ calls' = Append(calls, "getInfo")
  /\ infos' = i
  /\ nb_sample' = WMul(i.channels, Wide(i.frames))
  /\ pc' = "read"
  /\ UNCHANGED <<ctx, openRes, fileOpen, samplesLen, readGot, buffer_id,
                 format, sound_data, result, cause, genHandle, upload,
                 queried, allocBefore>>
  /\ UNCHANGED <<backend, heap, observed>>

\* Vec::from_elem(nb_sample as uint, 0i16); file.read_i16(..., nb_sample)
ReadSamples ==
  /\ pc = "read"
  /\ calls' = Append(calls, "readSamples")
  /\ samplesLen' = nb_sample
  /\ \E got \in ReadOutcomes(nb_sample) : readGot' = got
  /\ pc' = "format"
  /\ UNCHANGED <<ctx, openRes, fileOpen, infos, nb_sample, buffer_id,
                 format, sound_data, result, cause, genHandle, upload,
                 queried, allocBefore>>
  /\ UNCHANGED <<backend, heap, observed>>

\* MapFormat with the None arm printing the error and falling through
MapFormat_NoReturn ==
  /\ pc = "format"
  /\ calls' = Append(calls, "mapChannelsToFormat")
  /\ buffer_id' = NoBuffer
  /\ format' = get_channels_format(infos.channels)
  /\ pc' = "gen"
  /\ UNCHANGED <<result, cause>>
  /\ UNCHANGED <<ctx, openRes, fileOpen, infos, nb_sample, samplesLen,
                 readGot, sound_data, genHandle, upload, queried, allocBefore>>
  /\ UNCHANGED <<backend, heap, observed>>

\* let mut buffer_id = 0; match al::get_channels_format(infos.channels)
MapFormat ==
  /\ pc = "format"
  /\ calls' = Append(calls, "mapChannelsToFormat")
  /\ buffer_id' = NoBuffer
  /\ format' = get_channels_format(infos.channels)
  /\ IF get_channels_format(infos.channels) = "none"
       THEN Fail("UnsupportedFormat")
       ELSE pc' = "gen" /\ UNCHANGED <<result, cause>>
  /\ UNCHANGED <<ctx, openRes, fileOpen, infos, nb_sample, samplesLen, readGot,
                 sound_data, genHandle, upload, queried, allocBefore>>
  /\ UNCHANGED <<backend, heap, observed>>

\* the name the backend gives a new buffer: one that names no buffer now.
\* Names are opaque to the program, which only stores them and hands them
\* back, so the backend is taken to give the lowest free one.
FreshNames == {h \in Handles \ allocated : \A g \in Handles \ allocated : h <= g}

\* al::alGenBuffers(1, &mut buffer_id): a fresh name, or an error and
\* buffer_id left as it was
GenBuffers ==
  /\ pc = "gen"
  /\ calls' = Append(calls, "generateBuffer")
  /\ \/ \E h \in FreshNames :
          /\ allocated' = allocated \cup {h}
          /\ buffer_id' = h
          /\ genHandle' = h
          /\ UNCHANGED alError
     \/ /\ alError' = TRUE
        /\ UNCHANGED <<allocated, buffer_id, genHandle>>
  /\ pc' = "upload"
  /\ UNCHANGED <<ctx, openRes, fileOpen, infos, nb_sample, samplesLen, readGot,
                 format, sound_data, result, cause, upload, queried,
                 allocBefore>>
  /\ UNCHANGED <<heap, observed>>

\* BufferData with the mono format passed whatever the channel count
BufferData_AlwaysMono(ok) ==
  /\ pc = "upload"
  /\ calls' = Append(calls, "uploadBufferData")
  /\ upload' = [buffer |-> buffer_id, format |-> "MONO16",
                size |-> Len32(samplesLen), rate |-> infos.samplerate]
  /\ IF buffer_id \in allocated /\ Len32(samplesLen) >= 0 /\ ok
       THEN UNCHANGED alError
       ELSE alError' = TRUE
  /\ pc' = "query"
  /\ UNCHANGED <<ctx, openRes, fileOpen, infos, nb_sample, samplesLen, readGot,
                 buffer_id, format, sound_data, result, cause,
                 genHandle, queried, allocBefore>>
  /\ UNCHANGED <<allocated, heap, observed>>

\* al::alBufferData(buffer_id, format, samples, len as i32, infos.samplerate)
BufferData(ok) ==
  /\ pc = "upload"
  /\ calls' = Append(calls, "uploadBufferData")
  /\ upload' = [buffer |-> buffer_id, format |-> format,
                size |-> Len32(samplesLen), rate |-> infos.samplerate]
  /\ IF buffer_id \in allocated /\ Len32(samplesLen) >= 0 /\ ok
       THEN UNCHANGED alError
       ELSE alError' = TRUE
  /\ pc' = "query"
  /\ UNCHANGED <<ctx, openRes, fileOpen, infos, nb_sample, samplesLen, readGot,
                 buffer_id, format, sound_data, result, cause,
                 genHandle, queried, allocBefore>>
  /\ UNCHANGED <<allocated, heap, observed>>

\* HasError with the Some(err) arm printing the error and falling through
HasError_Ignored ==
  /\ pc = "query"
  /\ calls' = Append(calls, "queryError")
  /\ queried' = IF alError THEN "error" ELSE "none"
  /\ alError' = FALSE
  /\ pc' = "tags"
  /\ UNCHANGED <<result, cause>>
  /\ UNCHANGED <<ctx, openRes, fileOpen, infos, nb_sample, samplesLen,
                 readGot, buffer_id, format, sound_data, genHandle, upload,
                 allocBefore>>
  /\ UNCHANGED <<allocated, heap, observed>>

\* match al::openal_has_error(): reads and clears the error flag
HasError ==
  /\ pc = "query"
  /\ calls' = Append(calls, "queryError")
  /\ queried' = IF alError THEN "error" ELSE "none"
  /\ alError' = FALSE
  /\ IF alError THEN Fail("BackendError")
                ELSE pc' = "tags" /\ UNCHANGED <<result, cause>>
  /\ UNCHANGED <<ctx, openRes, fileOpen, infos, nb_sample, samplesLen, readGot,
                 buffer_id, format, sound_data, genHandle, upload,
                 allocBefore>>
  /\ UNCHANGED <<allocated, heap, observed>>

\* Assemble with al_buffer left at its initial value instead of buffer_id
Assemble_NoBuffer(t) ==
  /\ pc = "tags"
  /\ calls' = Append(calls, "extractTags")
  /\ sound_data' = [sound_tags |-> t,
                    snd_info   |-> infos,
                    nb_sample  |-> nb_sample,
                    al_buffer  |-> NoBuffer]
  /\ pc' = "close"
  /\ UNCHANGED <<ctx, openRes, fileOpen, infos, nb_sample, samplesLen,
                 readGot, buffer_id, format, result, cause, genHandle,
                 upload, queried, allocBefore>>
  /\ UNCHANGED <<backend, heap, observed>>

\* Assemble with the file closed before the tags are read from it
Assemble_AfterClose(t) ==
  /\ pc = "tags"
  /\ calls' = calls \o <<"close", "extractTags">>
  /\ fileOpen' = FALSE
  /\ sound_data' = [sound_tags |-> t,
                    snd_info   |-> infos,
                    nb_sample  |-> nb_sample,
                    al_buffer  |-> buffer_id]
  /\ pc' = "close"
  /\ UNCHANGED <<ctx, openRes, infos, nb_sample, samplesLen, readGot,
                 buffer_id, format, result, cause, genHandle, upload,
                 queried, allocBefore>>
  /\ UNCHANGED <<backend, heap, observed>>

\* Assemble with a file that carries no tags treated as a failure
Assemble_TagsRequired(t) ==
  /\ pc = "tags"
  /\ calls' = Append(calls, "extractTags")
  /\ IF t = NoTags
       THEN Fail("NoTags") /\ UNCHANGED sound_data
       ELSE /\ sound_data' = [sound_tags |-> t,
                              snd_info   |-> infos,
                              nb_sample  |-> nb_sample,
                              al_buffer  |-> buffer_id]
            /\ pc' = "close"
            /\ UNCHANGED <<result, cause>>
  /\ UNCHANGED <<ctx, openRes, fileOpen, infos, nb_sample, samplesLen,
                 readGot, buffer_id, format, genHandle, upload, queried,
                 allocBefore>>
  /\ UNCHANGED <<backend, heap, observed>>

\* let sound_data = SoundData { sound_tags: get_sound_tags(&file), ... }
\* where t is what get_sound_tags read from the open file
Assemble(t) ==
  /\ pc = "tags"
  /\ calls' = Append(calls, "extractTags")
  /\ sound_data' = [sound_tags |-> t,
                    snd_info   |-> infos,
                    nb_sample  |-> nb_sample,
                    al_buffer  |-> buffer_id]
  /\ pc' = "close"
  /\ UNCHANGED <<ctx, openRes, fileOpen, infos, nb_sample, samplesLen, readGot,
                 buffer_id, format, result, cause, genHandle, upload,
                 queried, allocBefore>>
  /\ UNCHANGED <<backend, heap, observed>>

\* file.close(); Some(sound_data)
CloseFile ==
  /\ pc = "close"
  /\ calls' = Append(calls, "close")
  /\ fileOpen' = FALSE
  /\ result' = "Some"
  /\ pc' = "done"
  /\ UNCHANGED <<ctx, openRes, infos, nb_sample, samplesLen, readGot,
                 buffer_id, format, sound_data, cause, genHandle,
                 upload, queried, allocBefore>>
  /\ UNCHANGED <<backend, heap, observed>>

\* the call returns: the locals go out of scope; on Some the caller wraps
\* the value in its first Rc
ReturnToCaller ==
  /\ pc = "done"
  /\ pc' = "idle"
  /\ IF result = "Some"
       THEN /\ ents' = [ents EXCEPT ![nextEntity] = sound_data]
            /\ origin' = [origin EXCEPT ![nextEntity] =
                           [upload |-> upload, queried |-> queried,
                            data |-> sound_data]]
            /\ genOf' = [genOf EXCEPT ![nextEntity] = genHandle]
            /\ holders' = [holders EXCEPT ![nextEntity] = 1]
            /\ nextEntity' = nextEntity + 1
            /\ UNCHANGED <<clones, deleted>>
       ELSE UNCHANGED heap
  /\ ctx' = FALSE /\ openRes' = "pending" /\ fileOpen' = FALSE
  /\ infos' = NoInfo /\ nb_sample' = <<0, 0>> /\ samplesLen' = <<0, 0>>
  /\ readGot' = <<0, 0>>
  /\ buffer_id' = NoBuffer /\ format' = "none"
  /\ sound_data' = NoData /\ result' = "pending" /\ cause' = "none"
  /\ calls' = <<>> /\ genHandle' = NoBuffer /\ upload' = NoUpload
  /\ queried' = "pending" /\ allocBefore' = 0
  /\ UNCHANGED backend

Return ==
  /\ ReturnToCaller
  /\ UNCHANGED observed

\* the same return, with the caller noting what a failed call handed back
ReturnLogged ==
  /\ ReturnToCaller
  /\ lastFailure' = IF result = "None"
                      THEN [value |-> result, cause |-> cause]
                      ELSE lastFailure
  /\ UNCHANGED <<ret, stale>>

\* ---- shared holders and destruction ----

\* snd_data.clone(): one more holder of a live SoundData
Acquire(e) ==
  /\ pc = "idle"
  /\ ret.call = "none"
  /\ holders[e] > 0
  /\ clones[e] < MaxClones
  /\ holders' = [holders EXCEPT ![e] = @ + 1]
  /\ clones' = [clones EXCEPT ![e] = @ + 1]
  /\ UNCHANGED ret
  /\ UNCHANGED <<pc, locals, backend, ents, origin, genOf, deleted, nextEntity>>
  /\ UNCHANGED <<lastFailure, stale>>

\* Release with a drop that forgets alDeleteBuffers
Release_NoDelete(e) ==
  /\ pc = "idle"
  /\ ret.call = "none"
  /\ holders[e] > 0
  /\ holders' = [holders EXCEPT ![e] = @ - 1]
  /\ IF holders[e] = 1
       THEN /\ ents' = [ents EXCEPT ![e] = NoData]
            /\ origin' = [origin EXCEPT ![e] = NoOrigin]
       ELSE UNCHANGED <<ents, origin>>
  /\ UNCHANGED <<allocated, deleted>>
  /\ UNCHANGED ret
  /\ UNCHANGED <<pc, locals, alError, genOf, clones, nextEntity>>
  /\ UNCHANGED <<lastFailure, stale>>

\* Release with the buffer deleted by every holder that lets go
Release_DeleteEarly(e) ==
  /\ pc = "idle"
  /\ ret.call = "none"
  /\ holders[e] > 0
  /\ holders' = [holders EXCEPT ![e] = @ - 1]
  /\ allocated' = allocated \ {ents[e].al_buffer}
  /\ deleted' = [deleted EXCEPT ![e] = Append(@, ents[e].al_buffer)]
  /\ IF holders[e] = 1
       THEN /\ ents' = [ents EXCEPT ![e] = NoData]
            /\ origin' = [origin EXCEPT ![e] = NoOrigin]
       ELSE UNCHANGED <<ents, origin>>
  /\ UNCHANGED ret
  /\ UNCHANGED <<pc, locals, alError, genOf, clones, nextEntity>>
  /\ UNCHANGED <<lastFailure, stale>>

\* a holder goes out of scope: the count drops, and the last one out
\* runs Drop for SoundData, which calls ffi::alDeleteBuffers(1, &al_buffer);
\* the value itself is gone afterwards
Release(e) ==
  /\ pc = "idle"
  /\ ret.call = "none"
  /\ holders[e] > 0
  /\ holders' = [holders EXCEPT ![e] = @ - 1]
  /\ IF holders[e] = 1
       THEN /\ allocated' = allocated \ {ents[e].al_buffer}
            /\ alError' = IF ents[e].al_buffer \in allocated
                             THEN alError ELSE TRUE
            /\ deleted' = [deleted EXCEPT ![e] = Append(@, ents[e].al_buffer)]
            /\ ents' = [ents EXCEPT ![e] = NoData]
            /\ origin' = [origin EXCEPT ![e] = NoOrigin]
       ELSE UNCHANGED <<allocated, alError, deleted, ents, origin>>
  /\ UNCHANGED ret
  /\ UNCHANGED <<pc, locals, genOf, clones, nextEntity>>
  /\ UNCHANGED <<lastFailure, stale>>

\* the buffer of a live SoundData is released from outside it, through the
\* raw name get_buffer hands out: the entity is left with an invalid name
Invalidate(e) ==
  /\ pc = "idle"
  /\ ret.call = "none"
  /\ holders[e] > 0
  /\ e \notin stale
  /\ ents[e].al_buffer \in allocated
  /\ allocated' = allocated \ {ents[e].al_buffer}
  /\ stale' = stale \cup {e}
  /\ UNCHANGED ret
  /\ UNCHANGED <<pc, locals, alError, heap, lastFailure>>

\* ---- accessors ----

\* get_sndinfo(s_data): &s_data.snd_info
get_sndinfo(e) ==
  /\ pc = "idle"
  /\ ret.call = "none"
  /\ holders[e] > 0
  /\ ret' = [of |-> e, call |-> "get_sndinfo", value |-> ents[e].snd_info]
  /\ UNCHANGED <<pc, locals, backend, heap, lastFailure, stale>>

\* get_buffer(s_data): s_data.al_buffer
get_buffer(e) ==
  /\ pc = "idle"
  /\ ret.call = "none"
  /\ holders[e] > 0
  /\ ret' = [of |-> e, call |-> "get_buffer", value |-> ents[e].al_buffer]
  /\ UNCHANGED <<pc, locals, backend, heap, lastFailure, stale>>

\* get_tags that reads the tags again from the file, which may have changed
get_tags_Recomputed(e) ==
  /\ pc = "idle"
  /\ ret.call = "none"
  /\ holders[e] > 0
  /\ \E t \in TagSets :
       ret' = [of |-> e, call |-> "get_tags", value |-> t]
  /\ UNCHANGED <<pc, locals, backend, heap, lastFailure, stale>>

\* AudioTags::get_tags(&self): self.sound_tags.clone()
get_tags(e) ==
  /\ pc = "idle"
  /\ ret.call = "none"
  /\ holders[e] > 0
  /\ ret' = [of |-> e, call |-> "get_tags", value |-> ents[e].sound_tags]
  /\ UNCHANGED <<pc, locals, backend, heap, lastFailure, stale>>

\* the accessor call is over: the caller goes on, the temporary is gone
AccessorReturns ==
  /\ ret.call # "none"
  /\ ret' = NoRet
  /\ UNCHANGED <<pc, locals, backend, heap, lastFailure, stale>>

Steps ==
  \/ Begin
  \/ \E c \in BOOLEAN : CheckContext(c)
  \/ \E ok \in BOOLEAN : OpenFile(ok)
  \/ \E i \in Infos : GetInfo(i)
  \/ ReadSamples
  \/ MapFormat
  \/ GenBuffers
  \/ \E ok \in BOOLEAN : BufferData(ok)
  \/ HasError
  \/ \E t \in TagSets : Assemble(t)
  \/ CloseFile
  \/ \E e \in Entities : Acquire(e)
  \/ \E e \in Entities : Release(e)
  \/ \E e \in Entities : get_sndinfo(e)
  \/ \E e \in Entities : get_buffer(e)
  \/ \E e \in Entities : get_tags(e)
  \/ AccessorReturns

Next ==
  \/ Steps
  \/ Return

Spec == Init /\ [][Next]_vars

\* the program with a playback layer that may release a buffer it was
\* handed the name of
NextInvalidated ==
  \/ Next
  \/ \E e \in Entities : Invalidate(e)

SpecInvalidated == Init /\ [][NextInvalidated]_vars

\* the program as a caller sees it who keeps the outcome of failed calls
NextLog ==
  \/ Steps
  \/ ReturnLogged

SpecLog == Init /\ [][NextLog]_vars

\* ---- reading the record of a construction ----

\* the collaborator calls of SoundData::new in the order the code makes them
CallOrder ==
  <<"hasActiveContext", "open", "getInfo", "readSamples",
    "mapChannelsToFormat", "generateBuffer", "uploadBufferData",
    "queryError", "extractTags", "close">>

Called(c)  == \E i \in 1..Len(calls) : calls[i] = c
TimesCalled(c) == Cardinality({i \in 1..Len(calls) : calls[i] = c})
Before(a, b) == \E i, j \in 1..Len(calls) : i < j /\ calls[i] = a /\ calls[j] = b
Returning  == pc = "done"
Live(e)    == holders[e] > 0
Built(e)   == e < nextEntity

\* ---- claims ----

\* C1: a construct that returns a failure leaves as many device buffers
\* allocated as there were when it was called.
C1_FailedConstructLeavesNoBuffer ==
  (Returning /\ result = "None") => Cardinality(allocated) = allocBefore

\* C2: over a whole run the drop of a SoundData passes its buffer name to
\* alDeleteBuffers exactly once: not before the last holder has released,
\* once (and with the name of its own construction) after that, never twice.
C2_DeleteExactlyOnce ==
  \A e \in Entities :
    /\ Len(deleted[e]) <= 1
    /\ (Built(e) /\ ~Live(e)) => deleted[e] = <<genOf[e]>>
    /\ ~Built(e) => deleted[e] = <<>>

C2_Witness ==
  \E e \in Entities :
    Built(e) /\ ~Live(e) /\ clones[e] >= 1 /\ deleted[e] = <<genOf[e]>>

\* C3: while an entity has a holder its buffer is allocated in the backend
\* and its drop has deleted nothing; in particular after the first of two
\* holders has released.
C3_NoDeleteWhileHeld ==
  \A e \in Entities :
    Live(e) => ents[e].al_buffer \in allocated /\ deleted[e] = <<>>

C3_Witness ==
  \E e \in Entities :
    /\ clones[e] >= 1 /\ holders[e] = clones[e]
    /\ ents[e].al_buffer \in allocated /\ deleted[e] = <<>>

\* C4: whenever construct returns, the file handle it opened is closed.
C4_FileClosedOnReturn ==
  Returning => ~fileOpen

\* C5: with no active context construct returns None at that gate, having
\* called nothing but the context check: no decoder call, no buffer call.
C5_NoContextTouchesNothing ==
  (pc \notin {"idle", "context"} /\ ~ctx) =>
     /\ Returning /\ result = "None" /\ cause = "NoActiveContext"
     /\ calls = <<"hasActiveContext">>
     /\ openRes = "pending" /\ ~fileOpen
     /\ genHandle = NoBuffer /\ upload = NoUpload
     /\ Cardinality(allocated) = allocBefore

C5_Witness ==
  Returning /\ ~ctx /\ calls = <<"hasActiveContext">>

\* C6: when the open fails construct returns None at that gate, with no
\* entity and with no generateBuffer and no uploadBufferData call.
C6_OpenFailureAllocatesNothing ==
  (openRes = "Err") =>
     /\ Returning /\ result = "None" /\ cause = "FileOpenError"
     /\ sound_data = NoData
     /\ ~Called("generateBuffer") /\ ~Called("uploadBufferData")
     /\ genHandle = NoBuffer /\ upload = NoUpload
     /\ Cardinality(allocated) = allocBefore

C6_Witness ==
  Returning /\ openRes = "Err" /\ Called("open")

\* C7: a construct whose read delivered fewer samples than requested does
\* not return an entity.
C7_ShortReadFails ==
  (Returning /\ Called("readSamples") /\ readGot # nb_sample) => result = "None"

\* C8: when the channel count maps to no format construct returns None at
\* that gate and generateBuffer and uploadBufferData are never called.
C8_UnknownChannelsAllocateNothing ==
  (Called("mapChannelsToFormat") /\ get_channels_format(infos.channels) = "none") =>
     /\ Returning /\ result = "None" /\ cause = "UnsupportedFormat"
     /\ sound_data = NoData
     /\ ~Called("generateBuffer") /\ ~Called("uploadBufferData")
     /\ genHandle = NoBuffer /\ upload = NoUpload
     /\ Cardinality(allocated) = allocBefore

C8_Witness ==
  Returning /\ Called("mapChannelsToFormat") /\ infos.channels = 3

\* C9: an error reported by the query after generate and upload makes
\* construct return None with no entity; an entity is returned only when
\* that query, made after the upload, reported no error.
C9_BackendErrorFails ==
  /\ queried = "error" =>
       /\ Returning /\ result = "None" /\ cause = "BackendError"
       /\ sound_data = NoData
  /\ result = "Some" =>
       /\ queried = "none"
       /\ Before("generateBuffer", "uploadBufferData")
       /\ Before("uploadBufferData", "queryError")
  /\ \A e \in Entities : Live(e) => origin[e].queried = "none"

C9_Witness ==
  Returning /\ queried = "error" /\ Called("uploadBufferData")

\* C10: an entity exists only for a construction that completed, and it holds
\* the name its one alGenBuffers call produced, to which the data was uploaded
\* with no error reported; the name stays its own while it lives, and no two
\* live entities hold the same name.
C10_HandleValidIffConstructed ==
  /\ result = "None" => sound_data = NoData
  /\ result = "Some" =>
       /\ TimesCalled("generateBuffer") = 1
       /\ genHandle # NoBuffer
       /\ sound_data.al_buffer = genHandle
       /\ upload.buffer = genHandle
       /\ queried = "none"
       /\ genHandle \in allocated
       /\ \A e \in Entities : Live(e) => ents[e].al_buffer # genHandle
  /\ \A e \in Entities :
       /\ Live(e) =>
            /\ Built(e)
            /\ ents[e].al_buffer # NoBuffer
            /\ ents[e].al_buffer = genOf[e]
            /\ ents[e].al_buffer \in allocated
            /\ origin[e].upload.buffer = ents[e].al_buffer
            /\ origin[e].queried = "none"
            /\ \A d \in Entities \ {e} :
                 Live(d) => ents[d].al_buffer # ents[e].al_buffer
       /\ ~Live(e) => ents[e] = NoData

C10_Witness ==
  \E e, d \in Entities :
    /\ e # d /\ Live(e) /\ Live(d)
    /\ ents[e].al_buffer = genOf[e] /\ ents[d].al_buffer = genOf[d]
    /\ ents[e].al_buffer # ents[d].al_buffer

\* C11: a constructed SampleData has sampleCount = channelCount x frameCount
\* of the file info it captured (F for mono, 2F for stereo), not negative,
\* and the captured info is the one the decoder reported.
C11_SampleCountIsChannelsTimesFrames ==
  /\ result = "Some" =>
       /\ sound_data.snd_info = infos
       /\ sound_data.nb_sample =
            WMul(infos.channels, Wide(infos.frames))
       /\ sound_data.nb_sample[1] >= 0 /\ sound_data.nb_sample[2] >= 0
  /\ \A e \in Entities :
       Live(e) =>
         /\ ents[e].nb_sample =
              WMul(ents[e].snd_info.channels, Wide(ents[e].snd_info.frames))
         /\ ents[e].snd_info.channels = 1 =>
              ents[e].nb_sample = Wide(ents[e].snd_info.frames)
         /\ ents[e].nb_sample[1] >= 0 /\ ents[e].nb_sample[2] >= 0

C11_Witness ==
  \E e \in Entities :
    /\ Live(e) /\ ents[e].snd_info.channels = 2 /\ ents[e].snd_info.frames = 2
    /\ ents[e].nb_sample = Wide(4)

\* C12: for every constructed instance the format given to alBufferData is
\* the one get_channels_format maps its channel count to, and the rate given
\* is the file's sample rate.
C12_UploadFormatAndRate ==
  /\ result = "Some" =>
       /\ upload.format = get_channels_format(infos.channels)
       /\ upload.format # "none"
       /\ upload.rate = infos.samplerate
  /\ \A e \in Entities :
       Live(e) =>
         /\ origin[e].upload.format =
              get_channels_format(ents[e].snd_info.channels)
         /\ origin[e].upload.rate = ents[e].snd_info.samplerate

C12_Witness ==
  \E e \in Entities :
    /\ Live(e) /\ ents[e].snd_info.channels = 2
    /\ origin[e].upload.format = "STEREO16"
    /\ origin[e].upload.rate = 44100

\* C13: the value construct returns on a failure tells the caller which
\* gate failed: two failed calls that returned the same value failed at the
\* same gate.
C13_FailuresDistinguishable ==
  (Returning /\ result = "None" /\ lastFailure.value = result) =>
     lastFailure.cause = cause

\* C14: a construct that found a context, opened the file, got every sample
\* it asked for, mapped the channel count and saw no backend error returns
\* an entity made of that construction's tags, info, sample count and buffer
\* name; a file without metadata gives an entity with an empty tag set.
C14_AllGatesPassedYieldsEntity ==
  (/\ Returning /\ ctx /\ openRes = "Ok"
   /\ Called("readSamples") /\ readGot = nb_sample
   /\ get_channels_format(infos.channels) # "none"
   /\ queried = "none") =>
     /\ result = "Some" /\ cause = "none"
     /\ sound_data.sound_tags \in TagSets
     /\ sound_data.snd_info = infos
     /\ sound_data.nb_sample = nb_sample
     /\ sound_data.al_buffer = genHandle /\ genHandle # NoBuffer

C14_Witness ==
  /\ Returning /\ ctx /\ openRes = "Ok"
  /\ Called("readSamples") /\ readGot = nb_sample
  /\ queried = "none"
  /\ result = "Some" /\ sound_data.sound_tags = NoTags

\* C15: the accessors change nothing and call no collaborator: every live
\* entity still has the tags, info, sample count and buffer name its
\* construction gave it, and each accessor hands back that construction-time
\* value on every call.
C15_AccessorsArePure ==
  /\ \A e \in Entities : Live(e) => ents[e] = origin[e].data
  /\ ret.call # "none" =>
       /\ Live(ret.of)
       /\ pc = "idle" /\ calls = <<>> /\ ~alError
       /\ ret.call = "get_sndinfo" => ret.value = origin[ret.of].data.snd_info
       /\ ret.call = "get_buffer"  => ret.value = genOf[ret.of]
       /\ ret.call = "get_tags"    => ret.value = origin[ret.of].data.sound_tags

C15_Witness ==
  /\ ret.call = "get_tags" /\ clones[ret.of] >= 1
  /\ ret.value = {<<"title", "Shot">>}

\* C16: the collaborator calls of one construct come in the fixed order
\* context check, open, getInfo, readSamples, mapChannelsToFormat,
\* generateBuffer, uploadBufferData, queryError, extractTags, close (a failed
\* construct stops somewhere along it); the tags are read while the file is
\* open and nothing is called on the handle after close.
C16_CallOrder ==
  /\ Len(calls) <= Len(CallOrder)
  /\ calls = SubSeq(CallOrder, 1, Len(calls))
  /\ result = "Some" => calls = CallOrder
  /\ (Called("getInfo") /\ ~Called("close")) => fileOpen
  /\ (Called("extractTags") /\ pc = "close") => fileOpen
  /\ Called("close") => calls[Len(calls)] = "close" /\ ~fileOpen

C16_Witness ==
  Returning /\ result = "Some" /\ calls = CallOrder /\ ~fileOpen

\* C17: the drop of an entity whose buffer name has already been released
\* makes no alDeleteBuffers call.
C17_DropToleratesInvalidHandle ==
  \A e \in stale : (Built(e) /\ ~Live(e)) => deleted[e] = <<>>

\* C18: for every successful construction the byte length given to
\* alBufferData is exactly 2 x channelCount x frameCount: the narrowing to
\* i32 does not change it.
C18_UploadLengthIsExact ==
  result = "Some" =>
    /\ upload.size >= 0
    /\ Wide(upload.size) = WMul(2, WMul(infos.channels, Wide(infos.frames)))

\* C19: between calls the number of device buffers allocated in the backend
\* equals the number of entities that still have a holder.
C19_BuffersMatchLiveEntities ==
  pc = "idle" =>
    Cardinality(allocated) = Cardinality({e \in Entities : Live(e)})

====
